---------------------------- MODULE Spec2Model ----------------------------
(***************************************************************************)
(* Model of the real-time synchronisation layer of the Q&A forum client:   *)
(*   - the connection manager, hook useWebSocket                            *)
(*     (src/src/app/hooks/useWebSocket.ts);                                 *)
(*   - the reconciler, hook useQuestions (src/unnamed/part_001), which      *)
(*     folds the last-message slot of useWebSocket into the question store. *)
(*                                                                          *)
(* One useQuestions instance owns one useWebSocket instance.  Event        *)
(* handlers, timers and React effects are separate tasks of a single       *)
(* JavaScript thread, so each is one atomic action.  A React state update  *)
(* made by a handler is visible to the hook at once; the effects that      *)
(* depend on it run in a later task (MessageEffect).                       *)
(***************************************************************************)
EXTENDS Integers, Sequences, FiniteSets, TLC

(***************************************************************************)
(* Bounds of the model and constants of the program.                       *)
(***************************************************************************)
\* Transports (new WebSocket) one manager creates in a run.
MaxSockets == 11
\* Question ids the server uses.
NumIds == 2

\* useWebSocket option defaults; useQuestions overrides none of them.
reconnectInterval == 3000
maxReconnectAttempts == 10
\* useWebSocket option reconnect = true.
reconnect == TRUE
\* The cap of Math.min in ws.onclose.
MaxBackoffDelay == 30000

VARIABLES
    phase,                \* owner effect: "rendered", "mounted", "unmounted"
    ctorThrows,           \* whether new WebSocket(wsUrl) throws for this wsUrl
    isMountedRef,         \* isMountedRef.current
    isConnected,          \* useState isConnected
    lastMessage,          \* useState lastMessage
    wsRef,                \* wsRef.current: a socket id, 0 for null
    sockets,              \* the WebSocket objects: id -> [readyState, attached]
    created,              \* number of WebSocket objects constructed so far
    reconnectTimeoutRef,  \* reconnectTimeoutRef.current: a timer id, 0 for undefined
    reconnectTimers,      \* armed setTimeout timers: id -> delay in ms
    pingIntervalRef,      \* pingIntervalRef.current: an interval id, 0 for undefined
    pingIntervals,        \* armed setInterval timers (id = the socket they ping)
    reconnectAttemptsRef, \* reconnectAttemptsRef.current
    questions,            \* useQuestions: useState questions (the store)
    loading,              \* useQuestions: useState loading
    error,                \* useQuestions: useState error (TRUE: a message is set)
    dirty,                \* lastMessage changed and its effect has not run yet
    sent,                 \* the frame the last step handed to a transport
    returned,             \* what the call of the last step returned to the owner
    closesSinceOpen,      \* history: close signals handled since the last open
    ideal,                \* history: the parsed frames folded in receipt order
    applied,              \* history: type of the message the effect merged last
    connectedSeen,        \* useQuestions: isConnected when its effect last ran
    loadingTimeout,       \* useQuestions: the 5 s loadingTimeout is armed
    resynced,             \* history: the socket get_questions was last sent on
    last,                 \* history: the last task and what it started from
    loadingAI,            \* ForumPage: useState loadingAI, question id -> flag
    aiSuggestions,        \* ForumPage: useState aiSuggestions, id -> suggestion
    aiError,              \* ForumPage: 'Failed to get AI suggestion' is shown
    aiRequests,           \* ForumPage: the handleGetAISuggestion calls in flight
    aiSettled,            \* history: the request that settled in the last step
    localStorageToken,    \* localStorage['access_token'], 0 when absent
    sessionStorageToken,  \* sessionStorage['access_token'], 0 when absent
    backendToken,         \* Backend.token, 0 for null
    session,              \* Home: "fresh", "in" (a user is set), "out"
    signInPending,        \* a login or register request is in flight
    issued,               \* history: the token the last sign-in stored
    bearer,               \* history: the bearer token of the last request
    wsToken,              \* useQuestions: token, read from sessionStorage
    authLast              \* history: the last sign-in or sign-out step

hookVars == <<phase, ctorThrows, isMountedRef, isConnected, lastMessage, wsRef,
          sockets, created, reconnectTimeoutRef, reconnectTimers,
          pingIntervalRef, pingIntervals, reconnectAttemptsRef, questions,
          loading, error, dirty, sent, returned, closesSinceOpen, ideal,
          applied, connectedSeen, loadingTimeout, resynced, last>>

forumVars == <<loadingAI, aiSuggestions, aiError, aiRequests, aiSettled>>

authVars == <<localStorageToken, sessionStorageToken, backendToken, session,
              signInPending, issued, bearer, wsToken, authLast>>

vars == <<hookVars, forumVars, authVars>>

(***************************************************************************)
(* Data: questions, messages, frames.                                      *)
(***************************************************************************)
QuestionIds == 1..NumIds
Statuses == {"Pending", "Escalated", "Answered"}
Question == [question_id : QuestionIds, status : Statuses]

Q(id, st) == [question_id |-> id, status |-> st]

\* A parsed message { type, data }.  kind tells what data is: "absent"
\* (undefined or null), "array" (data holds the elements) or "object" (data
\* holds the one Question record).
Msg(t, k, d) == [type |-> t, kind |-> k, data |-> d]

\* useState<WebSocketMessage | null>(null)
NoMessage == Msg("<null>", "absent", <<>>)

\* event.data of a message event: text that JSON.parse accepts, or not.
Frame(ok, m) == [wellFormed |-> ok, value |-> m]
Malformed == Frame(FALSE, NoMessage)

\* JSON.parse(event.data): the message, or a SyntaxError.
ParseOk(f) == f.wellFormed
Parse(f) == f.value

NoFrame == [sock |-> 0, type |-> "none"]

Min(a, b) == IF a < b THEN a ELSE b

RECURSIVE Pow2(_)
Pow2(n) == IF n <= 0 THEN 1 ELSE 2 * Pow2(n - 1)

(***************************************************************************)
(* useQuestions: the merge rules of the message effect.                    *)
(***************************************************************************)
\* prev.some((q) => q.question_id === id)
HasId(prev, id) == \E k \in 1..Len(prev) : prev[k].question_id = id

\* Mutant of NewQuestion: the duplicate test is missing.
NewQuestion_NoDedup(prev, data) == <<data>> \o prev

\* case 'new_question'
NewQuestion(prev, data) ==
    IF HasId(prev, data.question_id) THEN prev ELSE <<data>> \o prev

\* Mutant of ReplaceById: a record that matches no id is added (an upsert).
ReplaceById_Upsert(prev, data) ==
    IF HasId(prev, data.question_id)
    THEN [k \in 1..Len(prev) |->
             IF prev[k].question_id = data.question_id THEN data ELSE prev[k]]
    ELSE Append(prev, data)

\* Mutant of ReplaceById: the updated record moves to the front.
ReplaceById_ToFront(prev, data) ==
    IF HasId(prev, data.question_id)
    THEN <<data>> \o SelectSeq(prev, LAMBDA q : q.question_id # data.question_id)
    ELSE prev

\* prev.map((q) => (q.question_id === data.question_id ? data : q))
ReplaceById(prev, data) ==
    [k \in 1..Len(prev) |->
        IF prev[k].question_id = data.question_id THEN data ELSE prev[k]]

\* data || []
DataOrEmpty(m) == IF m.kind = "absent" THEN <<>> ELSE m.data

\* Mutant of Reduce: a questions_list is appended to the store.
Reduce_SnapshotAppends(prev, m) ==
    CASE m.type \in {"initial_data", "questions"} -> DataOrEmpty(m)
      [] m.type = "questions_list" -> prev \o DataOrEmpty(m)
      [] m.type = "new_question" -> NewQuestion(prev, m.data[1])
      [] m.type = "answer_added" -> ReplaceById(prev, m.data[1])
      [] m.type = "question_status_changed" -> ReplaceById(prev, m.data[1])
      [] m.type = "refresh_data" -> DataOrEmpty(m)
      [] m.type = "pong" -> prev
      [] OTHER -> IF m.kind = "array" THEN m.data ELSE prev

\* Mutant of Reduce: a refresh_data without data keeps the store.
Reduce_RefreshKeepsPrior(prev, m) ==
    CASE m.type \in {"initial_data", "questions_list", "questions"} ->
            DataOrEmpty(m)
      [] m.type = "new_question" -> NewQuestion(prev, m.data[1])
      [] m.type = "answer_added" -> ReplaceById(prev, m.data[1])
      [] m.type = "question_status_changed" -> ReplaceById(prev, m.data[1])
      [] m.type = "refresh_data" -> IF m.kind = "absent" THEN prev ELSE m.data
      [] m.type = "pong" -> prev
      [] OTHER -> IF m.kind = "array" THEN m.data ELSE prev

\* Mutant of Reduce: a message of an unknown type is always ignored.
Reduce_IgnoresUnknown(prev, m) ==
    CASE m.type \in {"initial_data", "questions_list", "questions"} ->
            DataOrEmpty(m)
      [] m.type = "new_question" -> NewQuestion(prev, m.data[1])
      [] m.type = "answer_added" -> ReplaceById(prev, m.data[1])
      [] m.type = "question_status_changed" -> ReplaceById(prev, m.data[1])
      [] m.type = "refresh_data" -> DataOrEmpty(m)
      [] m.type = "pong" -> prev
      [] OTHER -> prev

\* The switch of the message effect: the store after message m.
Reduce(prev, m) ==
    CASE m.type \in {"initial_data", "questions_list", "questions"} ->
            DataOrEmpty(m)
      [] m.type = "new_question" -> NewQuestion(prev, m.data[1])
      [] m.type = "answer_added" -> ReplaceById(prev, m.data[1])
      [] m.type = "question_status_changed" -> ReplaceById(prev, m.data[1])
      [] m.type = "refresh_data" -> DataOrEmpty(m)
      [] m.type = "pong" -> prev
      [] OTHER -> IF m.kind = "array" THEN m.data ELSE prev

\* The setLoading(false) calls of the same switch.
LoadingAfter(ld, m) ==
    CASE m.type \in {"initial_data", "questions_list", "questions"} -> FALSE
      [] m.type = "new_question" -> FALSE
      [] m.type = "answer_added" -> ld
      [] m.type = "question_status_changed" -> ld
      [] m.type = "refresh_data" -> FALSE
      [] m.type = "pong" -> ld
      [] OTHER -> IF m.kind = "array" THEN FALSE ELSE ld

(***************************************************************************)
(* useWebSocket: the handlers, as functions of the state they read and     *)
(* write.  Cur is the current state as a record; Become(s) makes s the     *)
(* next state.                                                             *)
(***************************************************************************)
Cur ==
    [isMountedRef |-> isMountedRef, isConnected |-> isConnected,
     lastMessage |-> lastMessage, wsRef |-> wsRef, sockets |-> sockets,
     created |-> created, reconnectTimeoutRef |-> reconnectTimeoutRef,
     reconnectTimers |-> reconnectTimers, pingIntervalRef |-> pingIntervalRef,
     pingIntervals |-> pingIntervals,
     reconnectAttemptsRef |-> reconnectAttemptsRef, error |-> error,
     dirty |-> dirty, sent |-> sent, returned |-> returned,
     closesSinceOpen |-> closesSinceOpen, ideal |-> ideal, last |-> last]

\* The state is the record s (the fields of Cur).
Is(s) ==
    /\ isMountedRef = s.isMountedRef
    /\ isConnected = s.isConnected
    /\ lastMessage = s.lastMessage
    /\ wsRef = s.wsRef
    /\ sockets = s.sockets
    /\ created = s.created
    /\ reconnectTimeoutRef = s.reconnectTimeoutRef
    /\ reconnectTimers = s.reconnectTimers
    /\ pingIntervalRef = s.pingIntervalRef
    /\ pingIntervals = s.pingIntervals
    /\ reconnectAttemptsRef = s.reconnectAttemptsRef
    /\ error = s.error
    /\ dirty = s.dirty
    /\ sent = s.sent
    /\ returned = s.returned
    /\ closesSinceOpen = s.closesSinceOpen
    /\ ideal = s.ideal
    /\ last = s.last

Become(s) ==
    /\ isMountedRef' = s.isMountedRef
    /\ isConnected' = s.isConnected
    /\ lastMessage' = s.lastMessage
    /\ wsRef' = s.wsRef
    /\ sockets' = s.sockets
    /\ created' = s.created
    /\ reconnectTimeoutRef' = s.reconnectTimeoutRef
    /\ reconnectTimers' = s.reconnectTimers
    /\ pingIntervalRef' = s.pingIntervalRef
    /\ pingIntervals' = s.pingIntervals
    /\ reconnectAttemptsRef' = s.reconnectAttemptsRef
    /\ error' = s.error
    /\ dirty' = s.dirty
    /\ sent' = s.sent
    /\ returned' = s.returned
    /\ closesSinceOpen' = s.closesSinceOpen
    /\ ideal' = s.ideal
    /\ last' = s.last

Live(sock) == sock.readyState \in {"CONNECTING", "OPEN"}

\* What the task op starts from: whether wsRef holds a live transport, a
\* reconnect timer or a ping interval is armed, reconnect attempts are
\* counted; for the message effect, the store it starts from and the type of
\* the message merged before.
Started(op) ==
    [op |-> op,
     live |-> wsRef # 0 /\ Live(sockets[wsRef]),
     timer |-> reconnectTimers # {},
     ping |-> pingIntervals # {},
     retrying |-> reconnectAttemptsRef > 0,
     store |-> IF op = "effect" THEN questions ELSE <<>>,
     prev |-> IF op = "effect" THEN applied ELSE "none"]

\* The state a task starts from: nothing handed to a transport yet, nothing
\* returned to the owner.
Begin(op) ==
    [Cur EXCEPT !.sent = NoFrame, !.returned = "none", !.last = Started(op)]

\* The WebSocket objects that can still run code of the hook or that the hook
\* can still reach: one with a handler attached, one not yet closing, the one
\* wsRef holds, one an armed ping interval captured, and, while no transport
\* is held, the one disconnect() closed, until it signals closed.  The others
\* are dropped.
Collect(s) ==
    LET keep == {i \in DOMAIN s.sockets :
                    \/ s.sockets[i].attached
                    \/ Live(s.sockets[i])
                    \/ i = s.wsRef
                    \/ i \in s.pingIntervals
                    \/ s.wsRef = 0 /\ s.sockets[i].readyState = "CLOSING"}
    IN  [s EXCEPT !.sockets = [i \in keep |-> s.sockets[i]]]

\* clearTimeout(reconnectTimeoutRef.current)
ClearTimeout(timers, id) == {t \in timers : t.id # id}

\* clearInterval(pingIntervalRef.current)
ClearInterval(intervals, id) == intervals \ {id}

\* ws.close() with the four handlers set to null before it.
DetachAndClose(sock) ==
    [readyState |-> IF Live(sock) THEN "CLOSING" ELSE sock.readyState,
     attached |-> FALSE]

\* Mutant of disconnect: the reconnect timer is left armed.
disconnect_KeepsTimer(s) ==
    LET s2 == IF s.pingIntervalRef # 0
              THEN [s EXCEPT !.pingIntervals =
                                 ClearInterval(@, s.pingIntervalRef),
                             !.pingIntervalRef = 0]
              ELSE s
        s3 == IF s2.wsRef # 0
              THEN [s2 EXCEPT !.sockets[s2.wsRef] = DetachAndClose(@),
                              !.wsRef = 0]
              ELSE s2
    IN  Collect(s3)

\* Mutant of disconnect: the transport is closed with its handlers attached.
disconnect_KeepsHandlers(s) ==
    LET s1 == IF s.reconnectTimeoutRef # 0
              THEN [s EXCEPT !.reconnectTimers =
                                 ClearTimeout(@, s.reconnectTimeoutRef),
                             !.reconnectTimeoutRef = 0]
              ELSE s
        s2 == IF s1.pingIntervalRef # 0
              THEN [s1 EXCEPT !.pingIntervals =
                                  ClearInterval(@, s1.pingIntervalRef),
                              !.pingIntervalRef = 0]
              ELSE s1
        s3 == IF s2.wsRef # 0
              THEN [s2 EXCEPT !.sockets[s2.wsRef].readyState =
                                  IF Live(s2.sockets[s2.wsRef])
                                  THEN "CLOSING" ELSE @,
                              !.wsRef = 0]
              ELSE s2
    IN  Collect(s3)

\* Mutant of disconnect: the three releases are alternatives (else if), so
\* one call releases only the first resource it finds.
disconnect_ElseIf(s) ==
    IF s.reconnectTimeoutRef # 0
    THEN [s EXCEPT !.reconnectTimers = ClearTimeout(@, s.reconnectTimeoutRef),
                   !.reconnectTimeoutRef = 0]
    ELSE IF s.pingIntervalRef # 0
    THEN [s EXCEPT !.pingIntervals = ClearInterval(@, s.pingIntervalRef),
                   !.pingIntervalRef = 0]
    ELSE IF s.wsRef # 0
    THEN Collect([s EXCEPT !.sockets[s.wsRef] = DetachAndClose(@),
                           !.wsRef = 0])
    ELSE s

disconnect(s) ==
    LET s1 == IF s.reconnectTimeoutRef # 0
              THEN [s EXCEPT !.reconnectTimers =
                                 ClearTimeout(@, s.reconnectTimeoutRef),
                             !.reconnectTimeoutRef = 0]
              ELSE s
        s2 == IF s1.pingIntervalRef # 0
              THEN [s1 EXCEPT !.pingIntervals =
                                  ClearInterval(@, s1.pingIntervalRef),
                              !.pingIntervalRef = 0]
              ELSE s1
        s3 == IF s2.wsRef # 0
              THEN [s2 EXCEPT !.sockets[s2.wsRef] = DetachAndClose(@),
                              !.wsRef = 0]
              ELSE s2
    IN  Collect(s3)

\* Mutant of backoffDelay: the exponent is the attempt count itself.
backoffDelay_Exponent(interval, attempts) ==
    Min(interval * Pow2(attempts), MaxBackoffDelay)

\* Math.min(reconnectInterval * Math.pow(2, attempts - 1), 30000)
backoffDelay(interval, attempts) ==
    Min(interval * Pow2(attempts - 1), MaxBackoffDelay)

\* Mutant of ConnectRefused: the test of the attempt count is missing.
ConnectRefused_MountedOnly(s) == ~s.isMountedRef

\* The guard of connect(): unmounted, or the attempts are used up.
ConnectRefused(s) ==
    \/ ~s.isMountedRef
    \/ s.reconnectAttemptsRef >= maxReconnectAttempts

\* new WebSocket(wsUrl), the four handlers assigned, wsRef.current = ws.
NewSocket(s) ==
    LET id == s.created + 1
    IN  Collect([s EXCEPT !.sockets = [i \in DOMAIN s.sockets \cup {id} |->
                                          IF i = id
                                          THEN [readyState |-> "CONNECTING",
                                                attached |-> TRUE]
                                          ELSE s.sockets[i]],
                          !.created = id,
                          !.wsRef = id])

\* Mutant of connect: the existing connection is not cleaned up first.
connect_NoTeardown(s) ==
    IF ConnectRefused(s) THEN s
    ELSE IF ctorThrows
         THEN [s EXCEPT !.reconnectAttemptsRef = @ + 1]
         ELSE NewSocket(s)

\* Mutant of connect: the existing connection is cleaned up before the guard.
connect_TeardownFirst(s) ==
    LET d == disconnect(s)
    IN  IF ConnectRefused(s) THEN d
        ELSE IF ctorThrows
             THEN [d EXCEPT !.reconnectAttemptsRef = @ + 1]
             ELSE NewSocket(d)

connect(s) ==
    IF ConnectRefused(s) THEN s
    ELSE LET d == disconnect(s)
         IN  IF ctorThrows
             THEN [d EXCEPT !.reconnectAttemptsRef = @ + 1]
             ELSE NewSocket(d)

\* Mutant of onopen: the attempt counter is not reset.
onopen_NoReset(s, i) ==
    IF ~s.isMountedRef THEN s
    ELSE [s EXCEPT !.isConnected = TRUE,
                   !.error = FALSE,
                   !.pingIntervals = @ \cup {i},
                   !.pingIntervalRef = i,
                   !.closesSinceOpen = 0]

\* ws.onopen of socket i
onopen(s, i) ==
    IF ~s.isMountedRef THEN s
    ELSE [s EXCEPT !.reconnectAttemptsRef = 0,
                   !.isConnected = TRUE,
                   !.error = FALSE,
                   !.pingIntervals = @ \cup {i},
                   !.pingIntervalRef = i,
                   !.closesSinceOpen = 0]

\* Mutant of onmessage: a frame that fails to parse clears lastMessage.
onmessage_ClearsOnError(s, f) ==
    IF ~s.isMountedRef THEN s
    ELSE IF ParseOk(f)
         THEN [s EXCEPT !.lastMessage = Parse(f),
                        !.dirty = TRUE,
                        !.ideal = Reduce(@, Parse(f))]
         ELSE [s EXCEPT !.lastMessage = NoMessage, !.dirty = TRUE]

\* ws.onmessage of a socket, for the frame f
onmessage(s, f) ==
    IF ~s.isMountedRef THEN s
    ELSE IF ParseOk(f)
         THEN [s EXCEPT !.lastMessage = Parse(f),
                        !.dirty = TRUE,
                        !.ideal = Reduce(@, Parse(f))]
         ELSE s

\* ws.onerror of a socket
onerror(s) ==
    IF ~s.isMountedRef THEN s ELSE [s EXCEPT !.error = TRUE]

\* The reconnect branch of ws.onclose of socket i.
ScheduleReconnect(s, i) ==
    IF reconnect /\ s.reconnectAttemptsRef < maxReconnectAttempts
    THEN LET n == s.reconnectAttemptsRef + 1
         IN  [s EXCEPT !.reconnectAttemptsRef = n,
                       !.reconnectTimers = @ \cup
                           {[id |-> i,
                             delay |-> backoffDelay(reconnectInterval, n)]},
                       !.reconnectTimeoutRef = i]
    ELSE s

\* Mutant of onclose: the ping interval is not cleared.
onclose_KeepsPing(s, i) ==
    IF ~s.isMountedRef THEN s
    ELSE ScheduleReconnect([s EXCEPT !.isConnected = FALSE,
                                     !.closesSinceOpen = @ + 1], i)

\* ws.onclose of socket i
onclose(s, i) ==
    IF ~s.isMountedRef THEN s
    ELSE LET s1 == [s EXCEPT !.isConnected = FALSE,
                             !.closesSinceOpen = @ + 1,
                             !.pingIntervals =
                                 IF s.pingIntervalRef # 0
                                 THEN ClearInterval(@, s.pingIntervalRef)
                                 ELSE @]
         IN  ScheduleReconnect(s1, i)

\* The callback of the ping interval that the onopen of socket i started.
ping(s, i) ==
    IF s.sockets[i].readyState = "OPEN"
    THEN [s EXCEPT !.sent = [sock |-> i, type |-> "ping"]]
    ELSE s

\* Mutant of sendMessage: the readyState of the held transport is not tested.
sendMessage_AnyState(s) ==
    IF s.wsRef # 0
    THEN [s EXCEPT !.sent = [sock |-> s.wsRef, type |-> "message"],
                   !.returned = "true"]
    ELSE [s EXCEPT !.returned = "false"]

\* sendMessage(message): ws.send and true when wsRef holds an open transport,
\* false otherwise.
sendMessage(s) ==
    IF s.wsRef # 0 /\ s.sockets[s.wsRef].readyState = "OPEN"
    THEN [s EXCEPT !.sent = [sock |-> s.wsRef, type |-> "message"],
                   !.returned = "true"]
    ELSE [s EXCEPT !.returned = "false"]

(***************************************************************************)
(* Actions.                                                                *)
(***************************************************************************)
UseQuestionsUnchanged ==
    UNCHANGED <<questions, loading, applied, connectedSeen, loadingTimeout,
                resynced>>

\* The cleanup of the initial-data effect at unmount: clearTimeout.
UseQuestionsCleanup ==
    /\ loadingTimeout' = FALSE
    /\ UNCHANGED <<questions, loading, applied, connectedSeen, resynced>>

ForumUnchanged == UNCHANGED forumVars

AuthUnchanged == UNCHANGED authVars

\* connect() constructs a WebSocket from s only while the bound allows one.
WithinBound(s) ==
    (~ConnectRefused(s) /\ ~ctorThrows) => s.created < MaxSockets

\* useEffect(() => { isMountedRef.current = true; connect(); ... })
Mount ==
    /\ phase = "rendered"
    /\ phase' = "mounted"
    /\ LET s == [Begin("mount") EXCEPT !.isMountedRef = TRUE]
       IN  WithinBound(s) /\ Become(connect(s))
    /\ UNCHANGED ctorThrows
    /\ UseQuestionsUnchanged
    /\ ForumUnchanged
    /\ AuthUnchanged

\* Mutant of Unmount: the cleanup does not call disconnect().
Unmount_NoDisconnect ==
    /\ phase = "mounted"
    /\ phase' = "unmounted"
    /\ Become([Begin("unmount") EXCEPT !.isMountedRef = FALSE])
    /\ UNCHANGED ctorThrows
    /\ UseQuestionsCleanup
    /\ ForumUnchanged
    /\ AuthUnchanged

\* The cleanup of that effect: isMountedRef.current = false; disconnect().
Unmount ==
    /\ phase = "mounted"
    /\ phase' = "unmounted"
    /\ Become(disconnect([Begin("unmount") EXCEPT !.isMountedRef = FALSE]))
    /\ UNCHANGED ctorThrows
    /\ UseQuestionsCleanup
    /\ ForumUnchanged
    /\ AuthUnchanged

\* The owner calls the returned reconnect (= connect).
OwnerConnect ==
    /\ phase # "rendered"
    /\ WithinBound(Begin("connect"))
    /\ Become(connect(Begin("connect")))
    /\ UNCHANGED <<phase, ctorThrows>>
    /\ UseQuestionsUnchanged
    /\ ForumUnchanged
    /\ AuthUnchanged

\* The owner calls the returned disconnect.
OwnerDisconnect ==
    /\ phase # "rendered"
    /\ Become(disconnect(Begin("disconnect")))
    /\ UNCHANGED <<phase, ctorThrows>>
    /\ UseQuestionsUnchanged
    /\ ForumUnchanged
    /\ AuthUnchanged

\* The owner calls the returned sendMessage.
OwnerSend ==
    /\ phase # "rendered"
    /\ Become(sendMessage(Begin("send")))
    /\ UNCHANGED <<phase, ctorThrows>>
    /\ UseQuestionsUnchanged
    /\ ForumUnchanged
    /\ AuthUnchanged

\* The setTimeout callback of ws.onclose runs: connect().
ReconnectTimerFires ==
    \E t \in reconnectTimers :
        LET s == [Begin("timer") EXCEPT !.reconnectTimers = @ \ {t}]
        IN  /\ WithinBound(s)
            /\ Become(connect(s))
            /\ UNCHANGED <<phase, ctorThrows>>
            /\ UseQuestionsUnchanged
            /\ ForumUnchanged
            /\ AuthUnchanged

\* The setInterval callback of ws.onopen runs.
PingIntervalFires ==
    \E i \in pingIntervals :
        /\ Become(ping(Begin("ping"), i))
        /\ UNCHANGED <<phase, ctorThrows>>
        /\ UseQuestionsUnchanged
        /\ ForumUnchanged
        /\ AuthUnchanged

\* The transport of socket i signals opened.
SocketOpens ==
    \E i \in DOMAIN sockets :
        /\ sockets[i].readyState = "CONNECTING"
        /\ LET s == [Begin("open") EXCEPT !.sockets[i].readyState = "OPEN"]
           IN  Become(IF s.sockets[i].attached THEN onopen(s, i) ELSE s)
        /\ UNCHANGED <<phase, ctorThrows>>
        /\ UseQuestionsUnchanged
        /\ ForumUnchanged
        /\ AuthUnchanged

\* The transport of socket i delivers the frame f.
SocketMessage(f) ==
    \E i \in DOMAIN sockets :
        /\ sockets[i].readyState = "OPEN"
        /\ LET s == Begin(IF ParseOk(f) THEN "message" ELSE "malformed")
           IN  Become(IF sockets[i].attached THEN onmessage(s, f) ELSE s)
        /\ UNCHANGED <<phase, ctorThrows>>
        /\ UseQuestionsUnchanged
        /\ ForumUnchanged
        /\ AuthUnchanged

\* The transport of socket i signals an error.
SocketErrors ==
    \E i \in DOMAIN sockets :
        /\ Live(sockets[i])
        /\ Become(IF sockets[i].attached THEN onerror(Begin("error"))
                  ELSE Begin("error"))
        /\ UNCHANGED <<phase, ctorThrows>>
        /\ UseQuestionsUnchanged
        /\ ForumUnchanged
        /\ AuthUnchanged

\* The closing handshake of socket i starts from the server's side.
SocketClosing ==
    \E i \in DOMAIN sockets :
        /\ sockets[i].readyState = "OPEN"
        /\ Become([Begin("closing") EXCEPT
                       !.sockets[i].readyState = "CLOSING"])
        /\ UNCHANGED <<phase, ctorThrows>>
        /\ UseQuestionsUnchanged
        /\ ForumUnchanged
        /\ AuthUnchanged

\* The transport of socket i signals closed.
SocketCloses ==
    \E i \in DOMAIN sockets :
        /\ sockets[i].readyState # "CLOSED"
        /\ LET s == [Begin("close") EXCEPT !.sockets[i].readyState = "CLOSED"]
           IN  Become(Collect(IF s.sockets[i].attached
                              THEN onclose(s, i) ELSE s))
        /\ UNCHANGED <<phase, ctorThrows>>
        /\ UseQuestionsUnchanged
        /\ ForumUnchanged
        /\ AuthUnchanged

\* useQuestions: useEffect(() => { ... switch (type) ... }, [lastMessage])
MessageEffect ==
    /\ phase = "mounted"
    /\ dirty
    /\ dirty' = FALSE
    /\ sent' = NoFrame
    /\ returned' = "none"
    /\ last' = Started("effect")
    /\ IF lastMessage = NoMessage
       THEN UNCHANGED <<questions, loading, applied>>
       ELSE /\ questions' = Reduce(questions, lastMessage)
            /\ loading' = LoadingAfter(loading, lastMessage)
            /\ applied' = lastMessage.type
    /\ UNCHANGED <<phase, ctorThrows, isMountedRef, isConnected, lastMessage,
                   wsRef, sockets, created, reconnectTimeoutRef,
                   reconnectTimers, pingIntervalRef, pingIntervals,
                   reconnectAttemptsRef, error, closesSinceOpen, ideal,
                   connectedSeen, loadingTimeout, resynced>>
    /\ ForumUnchanged
    /\ AuthUnchanged

\* A frame sent with sendMessage, with the type of the message it carries.
Typed(s, t) ==
    IF s.sent = NoFrame THEN s ELSE [s EXCEPT !.sent.type = t]

\* useQuestions: useEffect(() => { if (isConnected) { sendMessage({ type:
\* 'get_questions' }); setTimeout(..., 5000) } return clearTimeout },
\* [isConnected, sendMessage]): the effect runs after a render in which
\* isConnected differs from the value it last ran with.
InitialDataEffect ==
    /\ phase = "mounted"
    /\ connectedSeen # isConnected
    /\ connectedSeen' = isConnected
    /\ loadingTimeout' = isConnected
    /\ LET s == IF isConnected
                THEN Typed(sendMessage(Begin("resync")), "get_questions")
                ELSE Begin("resync")
       IN  /\ Become(s)
           /\ resynced' = IF s.sent = NoFrame THEN resynced ELSE s.sent.sock
    /\ UNCHANGED <<phase, ctorThrows, questions, loading, applied>>
    /\ ForumUnchanged
    /\ AuthUnchanged

\* The loadingTimeout callback runs: setLoading(false).
LoadingTimeoutFires ==
    /\ loadingTimeout
    /\ loadingTimeout' = FALSE
    /\ loading' = FALSE
    /\ Become(Begin("loading-timeout"))
    /\ UNCHANGED <<phase, ctorThrows, questions, applied, connectedSeen,
                   resynced>>
    /\ ForumUnchanged
    /\ AuthUnchanged

(***************************************************************************)
(* ForumPage (src/src/app/components/forum.tsx): the AI-suggestion         *)
(* requests.  handleGetAISuggestion is an async function: the part before  *)
(* the await runs in the click (StartAI), the part after it when the       *)
(* request settles (ResolveAI, RejectAI).  Both parts read loadingAI and   *)
(* aiSuggestions from the closure of the render the click happened in.     *)
(***************************************************************************)
\* Requests in flight at one time.
MaxRequests == 2

\* The suggestions the service answers with: a text the page only stores.
Suggestions == {"s1"}

\* aiSuggestions[id] is undefined.
NoSuggestion == "none"

\* No request settled in the last step.
NoSettle == [id |-> 0, ok |-> FALSE, before |-> NoSuggestion]

\* The request r settled in this step, resolved (ok) or rejected; before is
\* the suggestion stored for its id when it settled.
Settle(r, ok) == [id |-> r.id, ok |-> ok, before |-> aiSuggestions[r.id]]

\* useQuestions before its initial-data effect saw a connection.
EffectFresh ==
    /\ connectedSeen = FALSE
    /\ loadingTimeout = FALSE
    /\ resynced = 0

\* useQuestions after its initial-data effect ran for the first transport.
EffectRan ==
    /\ connectedSeen = TRUE
    /\ loadingTimeout = TRUE
    /\ resynced = 1

\* useState({}) for loadingAI and aiSuggestions, no error shown.
ForumInit ==
    /\ loadingAI = [q \in QuestionIds |-> FALSE]
    /\ aiSuggestions = [q \in QuestionIds |-> NoSuggestion]
    /\ aiError = FALSE
    /\ aiRequests = <<>>
    /\ aiSettled = NoSettle

\* The call for question q, with the state its closure captured.
Request(q) ==
    [id |-> q, loadingAI |-> loadingAI, aiSuggestions |-> aiSuggestions]

\* The sequence list without its k-th element.
RemoveAt(list, k) ==
    [j \in 1..(Len(list) - 1) |-> IF j < k THEN list[j] ELSE list[j + 1]]

\* The click on the AI Suggest button of question q (disabled while
\* loadingAI[q]): setLoadingAI({ ...loadingAI, [questionId]: true }), then
\* the request is sent.
StartAI(q) ==
    /\ ~loadingAI[q]
    /\ Len(aiRequests) < MaxRequests
    /\ loadingAI' = [loadingAI EXCEPT ![q] = TRUE]
    /\ aiRequests' = Append(aiRequests, Request(q))
    /\ aiSettled' = NoSettle
    /\ UNCHANGED <<aiSuggestions, aiError>>
    /\ UNCHANGED hookVars
    /\ AuthUnchanged

\* The k-th request in flight resolves with the suggestion sug: the try
\* block sets aiSuggestions, the finally block loadingAI.
ResolveAI(k, sug) ==
    /\ k \in 1..Len(aiRequests)
    /\ LET r == aiRequests[k]
       IN  /\ aiSuggestions' = [r.aiSuggestions EXCEPT ![r.id] = sug]
           /\ loadingAI' = [r.loadingAI EXCEPT ![r.id] = FALSE]
    /\ aiRequests' = RemoveAt(aiRequests, k)
    /\ aiSettled' = Settle(aiRequests[k], TRUE)
    /\ UNCHANGED aiError
    /\ UNCHANGED hookVars
    /\ AuthUnchanged

\* Mutant of RejectAI: the catch block also clears the suggestion of the id.
RejectAI_ClearsSuggestion(k) ==
    /\ k \in 1..Len(aiRequests)
    /\ LET r == aiRequests[k]
       IN  /\ loadingAI' = [r.loadingAI EXCEPT ![r.id] = FALSE]
           /\ aiSuggestions' = [aiSuggestions EXCEPT ![r.id] = NoSuggestion]
    /\ aiError' = TRUE
    /\ aiRequests' = RemoveAt(aiRequests, k)
    /\ aiSettled' = Settle(aiRequests[k], FALSE)
    /\ UNCHANGED hookVars
    /\ AuthUnchanged

\* The k-th request in flight rejects: the catch block sets the error, the
\* finally block loadingAI.
RejectAI(k) ==
    /\ k \in 1..Len(aiRequests)
    /\ LET r == aiRequests[k]
       IN  loadingAI' = [r.loadingAI EXCEPT ![r.id] = FALSE]
    /\ aiError' = TRUE
    /\ aiRequests' = RemoveAt(aiRequests, k)
    /\ aiSettled' = Settle(aiRequests[k], FALSE)
    /\ UNCHANGED aiSuggestions
    /\ UNCHANGED hookVars
    /\ AuthUnchanged

(***************************************************************************)
(* Sign-in and sign-out: Home (src/src/app/home.tsx), LoginPage and        *)
(* RegisterPage, the Backend service (src/src/app/utils/backend.ts) and    *)
(* the token useQuestions reads for the WebSocket URL.                     *)
(***************************************************************************)
\* Access tokens the server issues.
NumTokens == 4
Tokens == 1..NumTokens

\* getItem returns null; Backend.token is null.
NoToken == 0

\* A browser session that starts with no token stored.
AuthFresh ==
    /\ localStorageToken = NoToken
    /\ sessionStorageToken = NoToken
    /\ backendToken = NoToken
    /\ session = "fresh"
    /\ signInPending = FALSE
    /\ issued = NoToken
    /\ bearer = NoToken
    /\ wsToken = NoToken
    /\ authLast = "none"

\* new Backend(): this.token = localStorage.getItem('access_token'), the
\* token an earlier visit left there, if any.
AuthInit ==
    /\ localStorageToken \in Tokens \cup {NoToken}
    /\ sessionStorageToken = NoToken
    /\ backendToken = localStorageToken
    /\ session = "fresh"
    /\ signInPending = FALSE
    /\ issued = localStorageToken
    /\ bearer = NoToken
    /\ wsToken = NoToken
    /\ authLast = "none"

\* Home's session check: backend.getUser() answers with a user when the
\* request carries a valid token; setUser(userData), the forum is shown.
CheckSession ==
    /\ session = "fresh"
    /\ backendToken # NoToken
    /\ bearer' = backendToken
    /\ session' = "in"
    /\ authLast' = "session"
    /\ UNCHANGED <<localStorageToken, sessionStorageToken, backendToken,
                   signInPending, issued, wsToken>>
    /\ UNCHANGED <<hookVars, forumVars>>

\* handleSubmit of LoginPage or RegisterPage: backend.login / register is
\* called and not awaited, onLogin(user) shows the forum at once.
SubmitSignIn ==
    /\ session # "in"
    /\ ~signInPending
    /\ bearer' = backendToken
    /\ session' = "in"
    /\ signInPending' = TRUE
    /\ authLast' = "signin"
    /\ UNCHANGED <<localStorageToken, sessionStorageToken, backendToken,
                   issued, wsToken>>
    /\ UNCHANGED <<hookVars, forumVars>>

\* The login or register request resolves with access_token t:
\* this.setToken(t).
SignInResolves(t) ==
    /\ signInPending
    /\ signInPending' = FALSE
    /\ backendToken' = t
    /\ localStorageToken' = t
    /\ issued' = t
    /\ authLast' = "token"
    /\ UNCHANGED <<sessionStorageToken, session, bearer, wsToken>>
    /\ UNCHANGED <<hookVars, forumVars>>

\* handleLogout of Home (the Logout button of ForumPage, shown for a user):
\* sessionStorage.removeItem("access_token"); setUser(null).
SignOut ==
    /\ session = "in"
    /\ sessionStorageToken' = NoToken
    /\ session' = "out"
    /\ authLast' = "logout"
    /\ UNCHANGED <<localStorageToken, backendToken, signInPending, issued,
                   bearer, wsToken>>
    /\ UNCHANGED <<hookVars, forumVars>>

\* Any fetchAPI call: getHeaders() adds Authorization: Bearer this.token when
\* this.token is set.
ApiRequest ==
    /\ bearer' = backendToken
    /\ authLast' = "request"
    /\ UNCHANGED <<localStorageToken, sessionStorageToken, backendToken,
                   session, signInPending, issued, wsToken>>
    /\ UNCHANGED <<hookVars, forumVars>>

\* useQuestions renders first: token = sessionStorage.getItem('access_token'),
\* the token of the WebSocket URL.
ReadWsToken ==
    /\ wsToken' = sessionStorageToken
    /\ authLast' = "wsread"
    /\ UNCHANGED <<localStorageToken, sessionStorageToken, backendToken,
                   session, signInPending, issued, bearer>>
    /\ UNCHANGED <<hookVars, forumVars>>

(***************************************************************************)
(* The frames the server sends in the specification of the whole client.   *)
(***************************************************************************)
Frames ==
    {Malformed,
     Frame(TRUE, Msg("initial_data", "array", <<Q(1, "Pending")>>)),
     Frame(TRUE, Msg("new_question", "object", <<Q(2, "Pending")>>)),
     Frame(TRUE, Msg("answer_added", "object", <<Q(1, "Answered")>>))}

\* The hook after its first render: the initial values of its state and refs.
Rendered ==
    [isMountedRef |-> TRUE, isConnected |-> FALSE, lastMessage |-> NoMessage,
     wsRef |-> 0, sockets |-> <<>>, created |-> 0, reconnectTimeoutRef |-> 0,
     reconnectTimers |-> {}, pingIntervalRef |-> 0, pingIntervals |-> {},
     reconnectAttemptsRef |-> 0, error |-> FALSE, dirty |-> FALSE,
     sent |-> NoFrame, returned |-> "none", closesSinceOpen |-> 0,
     ideal |-> <<>>,
     last |-> [op |-> "render", live |-> FALSE, timer |-> FALSE,
               ping |-> FALSE, retrying |-> FALSE, store |-> <<>>,
               prev |-> "none"]]

Init ==
    /\ phase = "rendered"
    /\ ctorThrows \in BOOLEAN
    /\ Is(Rendered)
    /\ questions = <<>>
    /\ loading = TRUE
    /\ applied = "none"
    /\ EffectFresh
    /\ ForumInit
    /\ AuthFresh

Next ==
    \/ Mount
    \/ Unmount
    \/ OwnerConnect
    \/ OwnerDisconnect
    \/ OwnerSend
    \/ ReconnectTimerFires
    \/ PingIntervalFires
    \/ SocketOpens
    \/ \E f \in Frames : SocketMessage(f)
    \/ SocketErrors
    \/ SocketClosing
    \/ SocketCloses
    \/ MessageEffect

Spec == Init /\ [][Next]_vars

\* The connection manager alone, no frame received; timers run: a reconnect
\* timer that stays armed fires.
NextManager ==
    \/ Mount
    \/ Unmount
    \/ OwnerConnect
    \/ OwnerDisconnect
    \/ OwnerSend
    \/ ReconnectTimerFires
    \/ PingIntervalFires
    \/ SocketOpens
    \/ SocketErrors
    \/ SocketClosing
    \/ SocketCloses

FairSpec == Init /\ [][NextManager]_vars /\ WF_vars(ReconnectTimerFires)

\* The connection manager with the initial-data effect of useQuestions and
\* its loading timeout, no frame received.
NextResync ==
    \/ Mount
    \/ Unmount
    \/ OwnerConnect
    \/ OwnerDisconnect
    \/ OwnerSend
    \/ ReconnectTimerFires
    \/ PingIntervalFires
    \/ SocketOpens
    \/ SocketErrors
    \/ SocketClosing
    \/ SocketCloses
    \/ InitialDataEffect
    \/ LoadingTimeoutFires

ResyncSpec == Init /\ [][NextResync]_vars

\* ForumPage alone: it does not use the hooks, which stay as first rendered.
InitForum ==
    /\ phase = "rendered"
    /\ ctorThrows = FALSE
    /\ Is(Rendered)
    /\ questions = <<>>
    /\ loading = TRUE
    /\ applied = "none"
    /\ EffectFresh
    /\ ForumInit
    /\ AuthFresh

NextForum ==
    \/ \E q \in QuestionIds : StartAI(q)
    \/ \E k \in 1..MaxRequests, sug \in Suggestions : ResolveAI(k, sug)
    \/ \E k \in 1..MaxRequests : RejectAI(k)

ForumSpec == InitForum /\ [][NextForum]_vars

\* Sign-in and sign-out alone: the hooks and the forum requests stay as
\* first rendered.
InitAuth ==
    /\ phase = "rendered"
    /\ ctorThrows = FALSE
    /\ Is(Rendered)
    /\ questions = <<>>
    /\ loading = TRUE
    /\ applied = "none"
    /\ EffectFresh
    /\ ForumInit
    /\ AuthInit

NextAuth ==
    \/ CheckSession
    \/ SubmitSignIn
    \/ \E t \in Tokens : SignInResolves(t)
    \/ SignOut
    \/ ApiRequest
    \/ ReadWsToken

AuthSpec == InitAuth /\ [][NextAuth]_vars

(***************************************************************************)
(* The merge rules alone: a connection that is open, a store the snapshot  *)
(* before left, and one frame received and not merged yet.                 *)
(***************************************************************************)
\* Longest store and longest snapshot.
MaxStoreLen == 2

Stores == UNION {[1..n -> Question] : n \in 0..MaxStoreLen}

\* The lists a snapshot carries: questions as they are when new, ids in any
\* order and with repeats.
Snapshots ==
    UNION {[1..n -> {Q(i, "Pending") : i \in QuestionIds}] :
              n \in 0..MaxStoreLen}

\* A type that is none of the cases of the switch.
UnknownType == "question_updated"

MergeMessages ==
    LET lists == {"initial_data", "questions_list", "questions",
                  "refresh_data", UnknownType}
        singles == {"new_question", "answer_added",
                    "question_status_changed", UnknownType}
    IN  {Msg(t, "array", d) : t \in lists, d \in Snapshots}
        \cup {Msg(t, "absent", <<>>) : t \in lists \cup {"pong"}}
        \cup {Msg(t, "object", <<q>>) : t \in singles, q \in Question}

\* The hook mounted, its first transport open.
Opened ==
    LET s1 == connect([Rendered EXCEPT !.isMountedRef = TRUE])
        s2 == [s1 EXCEPT !.sockets[1].readyState = "OPEN"]
    IN  onopen(s2, 1)

\* Opened, the store set to s0 by an initial_data, then message m received.
Received(s0, m) ==
    [onmessage([Opened EXCEPT !.ideal = s0], Frame(TRUE, m))
        EXCEPT !.last = [op |-> "message", live |-> TRUE, timer |-> FALSE,
                         ping |-> TRUE, retrying |-> FALSE, store |-> <<>>,
                         prev |-> "none"]]

InitMerge ==
    /\ phase = "mounted"
    /\ ctorThrows = FALSE
    /\ loading = FALSE
    /\ applied = "initial_data"
    /\ EffectRan
    /\ ForumInit
    /\ AuthFresh
    /\ \E s0 \in Stores, m \in MergeMessages :
          /\ questions = s0
          /\ Is(Received(s0, m))

NextMerge == MessageEffect

MergeSpec == InitMerge /\ [][NextMerge]_vars

(***************************************************************************)
(* Properties.                                                             *)
(***************************************************************************)
LiveSockets == {i \in DOMAIN sockets : Live(sockets[i])}
AttachedSockets == {i \in DOMAIN sockets : sockets[i].attached}

DistinctIds(st) ==
    \A j, k \in 1..Len(st) : j # k => st[j].question_id # st[k].question_id

\* This step is the message effect merging a message of type t.
Merges(t) == dirty /\ ~dirty' /\ lastMessage.type = t

\* The Question record a new_question, answer_added or
\* question_status_changed message carries.
Carried == lastMessage.data[1]

\* C1: once the owner has torn the manager down, no step sends a heartbeat
\* ping, constructs a transport, or changes isConnected, lastMessage or the
\* question store.
C1_NoMutationAfterTeardown ==
    [][phase = "unmounted" =>
          /\ sent'.type # "ping"
          /\ created' = created
          /\ isConnected' = isConnected
          /\ lastMessage' = lastMessage
          /\ questions' = questions]_vars

\* The teardown found the transport open and its heartbeat interval armed.
C1_Witness ==
    /\ phase = "unmounted"
    /\ last.op = "unmount"
    /\ last.live
    /\ last.ping
    /\ isConnected

\* C2: at most one transport is connecting or open, at most one has handlers
\* attached, and it is the one wsRef holds; a step that constructs a transport
\* leaves every earlier one detached and closing, closed or dropped.
C2_SingleTransport ==
    /\ [](/\ Cardinality(LiveSockets) <= 1
          /\ Cardinality(AttachedSockets) <= 1
          /\ \A i \in LiveSockets \cup AttachedSockets : i = wsRef)
    /\ [][created' # created =>
            \A i \in DOMAIN sockets :
                i \in DOMAIN sockets' =>
                    ~Live(sockets'[i]) /\ ~sockets'[i].attached]_vars

\* connect() called by the owner replaced a live transport by a new one.
C2_Witness ==
    /\ last.op = "connect"
    /\ last.live
    /\ created >= 2
    /\ wsRef = created
    /\ Live(sockets[wsRef])

\* C3: whenever no received message waits for the message effect, the store
\* is the fold of every parsed frame in receipt order.
C3_ReceiptOrder == ~dirty => questions = ideal

\* C4: merging a new_question into a store of distinct ids leaves the ids
\* distinct: the store is unchanged when the id is present, and the record is
\* put at the front when it is absent.
C4_IdempotentInsert ==
    [][(Merges("new_question") /\ DistinctIds(questions)) =>
          /\ DistinctIds(questions')
          /\ IF \E k \in 1..Len(questions) :
                    questions[k].question_id = Carried.question_id
             THEN questions' = questions
             ELSE questions' = <<Carried>> \o questions]_vars

\* A new_question for an id the store held, with another record, was merged.
C4_Witness ==
    /\ last.op = "effect"
    /\ lastMessage.type = "new_question"
    /\ ~dirty
    /\ DistinctIds(questions)
    /\ Len(questions) = 2
    /\ last.store = questions
    /\ \E k \in 1..Len(questions) :
          /\ questions[k].question_id = Carried.question_id
          /\ questions[k] # Carried

\* C5: merging an answer_added or question_status_changed whose id the store
\* does not hold leaves the store as it was.
C5_UnknownIdNoOp ==
    [][((Merges("answer_added") \/ Merges("question_status_changed"))
          /\ \A k \in 1..Len(questions) :
                 questions[k].question_id # Carried.question_id)
          => questions' = questions]_vars

\* A question_status_changed for an id absent from a store that is not empty
\* was merged.
C5_Witness ==
    /\ last.op = "effect"
    /\ lastMessage.type = "question_status_changed"
    /\ ~dirty
    /\ last.store # <<>>
    /\ \A k \in 1..Len(last.store) :
          last.store[k].question_id # Carried.question_id

\* C6: after an initial_data snapshot of distinct ids, merging an answer_added
\* for one of them keeps the number and the order of the records, puts the
\* carried record in place of the one with its id and keeps the others.
C6_AnswerAddedReplaces ==
    [][(/\ Merges("answer_added")
        /\ applied = "initial_data"
        /\ DistinctIds(questions)
        /\ \E k \in 1..Len(questions) :
               questions[k].question_id = Carried.question_id)
          => /\ Len(questions') = Len(questions)
             /\ \A k \in 1..Len(questions) :
                   questions'[k] =
                       IF questions[k].question_id = Carried.question_id
                       THEN Carried ELSE questions[k]]_vars

\* An answer_added changed the second of two records of a snapshot.
C6_Witness ==
    /\ last.op = "effect"
    /\ last.prev = "initial_data"
    /\ lastMessage.type = "answer_added"
    /\ ~dirty
    /\ Len(last.store) = 2
    /\ DistinctIds(last.store)
    /\ last.store[2].question_id = Carried.question_id
    /\ last.store[2] # Carried
    /\ questions = <<last.store[1], Carried>>

\* C7: merging an initial_data, questions_list or refresh_data makes the
\* store the data of the message, or empty when the message has no data.
C7_SnapshotReplaces ==
    [][\A t \in {"initial_data", "questions_list", "refresh_data"} :
          Merges(t) =>
              questions' = IF lastMessage.kind = "absent"
                           THEN <<>> ELSE lastMessage.data]_vars

\* A refresh_data without data emptied a store that held questions.
C7_Witness ==
    /\ last.op = "effect"
    /\ lastMessage.type = "refresh_data"
    /\ lastMessage.kind = "absent"
    /\ ~dirty
    /\ last.store # <<>>
    /\ questions = <<>>

\* C8: when a transport signals opened while the manager is mounted, the
\* attempt counter is 0 after the step; the first close signal handled after
\* an open (of the transport that opened or of one that replaced it) leaves
\* the attempt counter 1 and one reconnect timer armed, with the base delay.
C8_OpenResetsAttempts ==
    [][\A i \in DOMAIN sockets \cap DOMAIN sockets' :
          /\ (isMountedRef /\ sockets[i].readyState = "CONNECTING"
                /\ sockets'[i].readyState = "OPEN")
                => reconnectAttemptsRef' = 0
          /\ (isMountedRef /\ sockets[i].readyState # "CLOSED"
                /\ sockets'[i].readyState = "CLOSED"
                /\ (sockets[i].readyState = "OPEN" \/ closesSinceOpen = 0))
                => /\ reconnectAttemptsRef' = 1
                   /\ reconnectTimers' =
                          {[id |-> i, delay |-> reconnectInterval]}]_vars

\* A transport opened after failed attempts had been counted.
C8_Witness ==
    /\ last.op = "open"
    /\ last.retrying
    /\ reconnectAttemptsRef = 0
    /\ isConnected

\* The delays of attempts 1..6 with a base of 1000 ms.
BackoffTable == <<1000, 2000, 4000, 8000, 16000, 30000>>

\* C9: an armed reconnect timer, scheduled by the k-th close signal since the
\* last open, has the delay min(base * 2^(k-1), 30000); with the base 1000 the
\* delays of attempts 1..6 are 1000, 2000, 4000, 8000, 16000, 30000; the
\* delay never decreases with k and never exceeds 30000.
C9_BackoffDelay ==
    /\ \A t \in reconnectTimers :
          /\ closesSinceOpen >= 1
          /\ t.delay = Min(reconnectInterval * Pow2(closesSinceOpen - 1), 30000)
          /\ t.delay <= 30000
    /\ \A k \in 1..6 : backoffDelay(1000, k) = BackoffTable[k]
    /\ \A k \in 1..(maxReconnectAttempts - 1) :
          backoffDelay(reconnectInterval, k)
              <= backoffDelay(reconnectInterval, k + 1)

\* The fifth close in a row armed a timer with the capped delay.
C9_Witness ==
    /\ closesSinceOpen = 5
    /\ reconnectInterval * Pow2(closesSinceOpen - 1) > 30000
    /\ \E t \in reconnectTimers : t.delay = 30000

\* The attempts are used up.
Exhausted == reconnectAttemptsRef = maxReconnectAttempts

\* C10: the attempt counter stays within 0..maxReconnectAttempts; once it is
\* maxReconnectAttempts the manager is not connected and holds no live
\* transport, no step constructs a transport, arms a timer or changes the
\* counter, and the timer still armed goes: no timer stays pending.
C10_ExhaustedIsTerminal ==
    /\ [](/\ reconnectAttemptsRef \in 0..maxReconnectAttempts
          /\ Exhausted => /\ ~isConnected
                          /\ LiveSockets = {}
                          /\ Cardinality(reconnectTimers) <= 1)
    /\ [][Exhausted => /\ reconnectAttemptsRef' = reconnectAttemptsRef
                       /\ created' = created
                       /\ reconnectTimers' \subseteq reconnectTimers
                       /\ sockets' = sockets \/ LiveSockets' = {}]_vars
    /\ (Exhausted ~> (Exhausted /\ reconnectTimers = {}))

\* The timer armed by the last counted close fired and connect() refused.
C10_Witness ==
    /\ Exhausted
    /\ last.op = "timer"
    /\ last.timer
    /\ reconnectTimers = {}
    /\ ~isConnected
    /\ ~ctorThrows

\* C11: after the owner's disconnect(), whatever the state it was called in,
\* isConnected is false, wsRef holds no transport, and no ping interval and no
\* reconnect timer is armed.
C11_DisconnectedAfterDisconnect ==
    last.op = "disconnect" =>
        /\ ~isConnected
        /\ wsRef = 0
        /\ pingIntervals = {}
        /\ reconnectTimers = {}

\* What disconnect() does release: after the owner's call no transport is
\* held, none is live or attached, and no interval or timer is armed.
DisconnectReleases ==
    last.op = "disconnect" =>
        /\ wsRef = 0
        /\ LiveSockets = {}
        /\ AttachedSockets = {}
        /\ pingIntervals = {}
        /\ reconnectTimers = {}

\* The fields of the manager that disconnect() can be observed through.
ManagerView(s) ==
    [wsRef |-> s.wsRef, sockets |-> s.sockets,
     reconnectTimeoutRef |-> s.reconnectTimeoutRef,
     reconnectTimers |-> s.reconnectTimers,
     pingIntervalRef |-> s.pingIntervalRef,
     pingIntervals |-> s.pingIntervals,
     reconnectAttemptsRef |-> s.reconnectAttemptsRef,
     isConnected |-> s.isConnected, lastMessage |-> s.lastMessage]

\* C12: in every reachable state, disconnect() called twice leaves the
\* transport reference, the transports, both timers, the attempt counter,
\* isConnected and lastMessage as one call leaves them; and a disconnect()
\* step that follows a disconnect() step changes none of them.
C12_DisconnectIdempotent ==
    /\ [](ManagerView(disconnect(disconnect(Cur)))
              = ManagerView(disconnect(Cur)))
    /\ [][(last.op = "disconnect" /\ last'.op = "disconnect")
              => ManagerView(Cur)' = ManagerView(Cur)]_vars

\* disconnect() ran in a state that a disconnect() of an open connection had
\* left: nothing held, nothing armed, isConnected not reset.
C12_Witness ==
    /\ last.op = "disconnect"
    /\ ~last.live
    /\ ~last.timer
    /\ ~last.ping
    /\ wsRef = 0
    /\ reconnectTimeoutRef = 0
    /\ pingIntervalRef = 0
    /\ isConnected

\* C13: a connect() called by the owner while the attempts are used up or the
\* manager is unmounted changes nothing: no transport is constructed, and the
\* transport held, the transports, both timers, the attempt counter and
\* isConnected stay as they are; a connect() run by the reconnect timer in
\* such a state changes nothing but the timer that fired.
C13_ConnectFailsFast ==
    [][(reconnectAttemptsRef >= maxReconnectAttempts \/ ~isMountedRef) =>
          /\ last'.op = "connect" =>
                /\ created' = created
                /\ ManagerView(Cur)' = ManagerView(Cur)
          /\ last'.op = "timer" =>
                /\ created' = created
                /\ [ManagerView(Cur)' EXCEPT !.reconnectTimers = {}]
                       = [ManagerView(Cur) EXCEPT !.reconnectTimers = {}]
                /\ reconnectTimers' \subseteq reconnectTimers]_vars

\* The owner called connect() with the attempts used up while the last
\* reconnect timer was armed and the closed transport still held.
C13_Witness ==
    /\ last.op = "connect"
    /\ Exhausted
    /\ last.timer
    /\ reconnectTimers # {}
    /\ wsRef # 0
    /\ isMountedRef

\* wsRef holds a transport that is open.
HeldOpen == wsRef # 0 /\ sockets[wsRef].readyState = "OPEN"

\* C14: a sendMessage step returns true exactly when wsRef holds an open
\* transport, and then hands one frame to that transport; in every other
\* state (nothing held, connecting, closing, closed) it returns false, hands
\* no frame to any transport and changes nothing of the manager.
C14_SendOnlyWhenOpen ==
    [][last'.op = "send" =>
          /\ returned' = IF HeldOpen THEN "true" ELSE "false"
          /\ HeldOpen => sent' = [sock |-> wsRef, type |-> "message"]
          /\ ~HeldOpen => /\ sent' = NoFrame
                          /\ ManagerView(Cur)' = ManagerView(Cur)]_vars

\* sendMessage was refused while the held transport was closing and
\* isConnected still true.
C14_Witness ==
    /\ last.op = "send"
    /\ returned = "false"
    /\ sent = NoFrame
    /\ wsRef # 0
    /\ sockets[wsRef].readyState = "CLOSING"
    /\ isConnected

\* C15: a step that receives a malformed frame changes neither lastMessage,
\* nor whether it waits for the message effect, nor the store, nor the error
\* flag, nor anything of the manager, and leaves the transport open with its
\* handlers attached; a well-formed frame received next is put in lastMessage
\* for the message effect.
C15_MalformedFrameDropped ==
    /\ [][last'.op = "malformed" =>
             /\ lastMessage' = lastMessage
             /\ dirty' = dirty
             /\ questions' = questions
             /\ ideal' = ideal
             /\ error' = error
             /\ ManagerView(Cur)' = ManagerView(Cur)
             /\ \E i \in DOMAIN sockets' :
                   /\ sockets'[i].readyState = "OPEN"
                   /\ sockets'[i].attached]_vars
    /\ [][(last.op = "malformed" /\ last'.op = "message") =>
             /\ dirty'
             /\ \E f \in Frames : ParseOk(f) /\ lastMessage' = Parse(f)]_vars

\* A malformed frame arrived while a message waited for the message effect
\* and the store held questions.
C15_Witness ==
    /\ last.op = "malformed"
    /\ lastMessage # NoMessage
    /\ dirty
    /\ questions # <<>>
    /\ isConnected

\* The tags the switch of the message effect has a case for.
CaseTags ==
    {"initial_data", "questions_list", "questions", "new_question",
     "answer_added", "question_status_changed", "refresh_data", "pong"}

\* The tags the unknown-type policy is stated for.
PolicyTags == CaseTags \ {"questions"}

\* This step is the message effect merging a message whose type is not in
\* tags: the store becomes the data when the data is a sequence and is
\* unchanged otherwise.
UnknownTypePolicy(tags) ==
    (dirty /\ ~dirty' /\ lastMessage # NoMessage /\ lastMessage.type \notin tags)
        => questions' = IF lastMessage.kind = "array"
                        THEN lastMessage.data ELSE questions

\* C16 as stated: for a message whose type is none of initial_data,
\* questions_list, new_question, answer_added, question_status_changed,
\* refresh_data, pong, the store becomes the data if the data is a sequence
\* and is unchanged if the data is absent or not a sequence.
C16_UnknownTypeAsStated == [][UnknownTypePolicy(PolicyTags)]_vars

\* C16 amended: the same for a message whose type is none of those tags and
\* is not questions either, the tag the switch treats like initial_data.
C16_UnknownTypeReplaces == [][UnknownTypePolicy(CaseTags)]_vars

\* A message of an unknown type with a list as data replaced a store that
\* held other questions.
C16_Witness ==
    /\ last.op = "effect"
    /\ ~dirty
    /\ lastMessage.type = UnknownType
    /\ lastMessage.kind = "array"
    /\ last.store # <<>>
    /\ last.store # lastMessage.data
    /\ questions = lastMessage.data

\* The moves of a status: none, Pending to Escalated, Pending to Answered,
\* Escalated to Answered.
Forward(a, b) ==
    \/ a = b
    \/ <<a, b>> \in {<<"Pending", "Escalated">>, <<"Pending", "Answered">>,
                     <<"Escalated", "Answered">>}

\* C17: across every step, a question that the store holds before and after
\* (ids distinct in both) keeps its status or moves it forward: an Answered
\* one stays Answered, an Escalated one does not become Pending.
C17_StatusMovesForward ==
    [][(DistinctIds(questions) /\ DistinctIds(questions')) =>
          \A j \in 1..Len(questions), k \in 1..Len(questions') :
              questions[j].question_id = questions'[k].question_id
                  => Forward(questions[j].status, questions'[k].status)]_vars

(***************************************************************************)
(* The list useQuestions returns: a first snapshot of questions that carry *)
(* their creation time is received and merged.                             *)
(***************************************************************************)
\* Longest first snapshot; its questions have the ids 1..MaxViewLen.
MaxViewLen == 3

\* Question i, created at time i (timestamps compare as creation times).
TimedQuestions ==
    {[question_id |-> i, status |-> st, timestamp |-> i] :
        i \in 1..MaxViewLen, st \in Statuses}

\* The lists a first snapshot carries: distinct ids, in any order.
TimedSnapshots ==
    {d \in UNION {[1..n -> TimedQuestions] : n \in 0..MaxViewLen} :
        DistinctIds(d)}

InitView ==
    /\ phase = "mounted"
    /\ ctorThrows = FALSE
    /\ loading = TRUE
    /\ applied = "none"
    /\ questions = <<>>
    /\ EffectRan
    /\ ForumInit
    /\ AuthFresh
    /\ \E d \in TimedSnapshots :
          Is(Received(<<>>, Msg("initial_data", "array", d)))

NextView == MessageEffect

ViewSpec == InitView /\ [][NextView]_vars

\* The questions field of the object useQuestions returns: the store itself.
Exposed == questions

\* Escalated(3) > Pending(2) > Answered(1)
StatusRank(st) ==
    CASE st = "Escalated" -> 3
      [] st = "Pending" -> 2
      [] st = "Answered" -> 1

\* list is in priority order: status rank descending, and creation time
\* descending within a rank.
PriorityOrdered(list) ==
    \A j, k \in 1..Len(list) :
        j < k =>
            \/ StatusRank(list[j].status) > StatusRank(list[k].status)
            \/ /\ StatusRank(list[j].status) = StatusRank(list[k].status)
               /\ list[j].timestamp >= list[k].timestamp

\* a and b hold the same records, in some order.
SameRecords(a, b) ==
    /\ Len(a) = Len(b)
    /\ \A q \in {a[k] : k \in 1..Len(a)} \cup {b[k] : k \in 1..Len(b)} :
          Cardinality({k \in 1..Len(a) : a[k] = q})
              = Cardinality({k \in 1..Len(b) : b[k] = q})

\* C18: once the snapshot is merged, the exposed list holds the records of
\* the store in priority order (status rank Escalated > Pending > Answered,
\* then creation time descending); a store [Answered@1, Pending@2,
\* Escalated@3] is exposed as [Escalated@3, Pending@2, Answered@1] and the
\* store keeps the order of the snapshot.
C18_ExposedInPriorityOrder ==
    (last.op = "effect" /\ ~dirty) =>
        /\ questions = lastMessage.data
        /\ SameRecords(Exposed, questions)
        /\ PriorityOrdered(Exposed)

\* C19: a step that counts a failed connection attempt (the transport closed,
\* or constructing it threw) and leaves attempts remaining also leaves a
\* reconnect timer armed, so the manager is not idle.
C19_FailureSchedulesReconnect ==
    [][(/\ reconnect
        /\ isMountedRef'
        /\ reconnectAttemptsRef' = reconnectAttemptsRef + 1
        /\ reconnectAttemptsRef' < maxReconnectAttempts)
          => reconnectTimers' # {}]_vars

\* What the code keeps of it: a close signal that is handled with attempts
\* remaining arms a reconnect timer.
CloseSchedulesReconnect ==
    [][(/\ last'.op = "close"
        /\ reconnectAttemptsRef' = reconnectAttemptsRef + 1)
          => reconnectTimers' # {}]_vars

\* The requests in flight for question q.
InFlight(q) == {k \in 1..Len(aiRequests) : aiRequests[k].id = q}

\* C20: for every question id, at most one AI-suggestion request is in
\* flight, and while one is in flight the loading flag of the id is true.
C20_OneRequestPerQuestion ==
    \A q \in QuestionIds :
        /\ Cardinality(InFlight(q)) <= 1
        /\ InFlight(q) # {} => loadingAI[q]

\* C21: a step in which the request for question q rejects leaves the
\* suggestion stored for q and the question store as they were, shows the
\* error, and leaves the loading flag of q false.
C21_FailureKeepsSuggestion ==
    [][(aiSettled'.id # 0 /\ ~aiSettled'.ok) =>
          LET q == aiSettled'.id
          IN  /\ aiSuggestions'[q] = aiSettled'.before
              /\ aiSuggestions'[q] = aiSuggestions[q]
              /\ questions' = questions
              /\ aiError'
              /\ ~loadingAI'[q]]_vars

\* A request for a question that had a suggestion stored was rejected.
C21_Witness ==
    /\ aiSettled.id # 0
    /\ ~aiSettled.ok
    /\ aiSettled.before # NoSuggestion
    /\ aiSuggestions[aiSettled.id] = aiSettled.before
    /\ aiError
    /\ ~loadingAI[aiSettled.id]

\* C22: after sign-out the token that sign-in stored is gone from the storage
\* it was written to and Backend.token is null; a request made, or a
\* WebSocket token read, after sign-out carries no token; and the token
\* useQuestions reads while a user is signed in is the one sign-in stored.
C22_SignOutClearsToken ==
    /\ session = "out" =>
          /\ localStorageToken = NoToken
          /\ backendToken = NoToken
          /\ authLast = "request" => bearer = NoToken
          /\ authLast = "wsread" => wsToken = NoToken
    /\ (session = "in" /\ authLast = "wsread" /\ ~signInPending)
          => wsToken = issued

\* C23: at most one ping interval is armed; the transport that started it is
\* the one wsRef holds, has opened and has not signalled closed; a step arms
\* an interval only when a transport signals opened, and for that transport;
\* a close signal of a transport leaves its interval cleared; disconnect()
\* and unmount leave none armed; a ping frame goes only to an open transport
\* whose interval is armed.
C23_HeartbeatWhileOpen ==
    /\ [](/\ Cardinality(pingIntervals) <= 1
          /\ \A i \in pingIntervals :
                /\ i = wsRef
                /\ i \in DOMAIN sockets
                /\ sockets[i].readyState \in {"OPEN", "CLOSING"}
                /\ sockets[i].attached)
    /\ [][/\ \A i \in pingIntervals' \ pingIntervals :
                /\ last'.op = "open"
                /\ sockets[i].readyState = "CONNECTING"
                /\ sockets'[i].readyState = "OPEN"
          /\ \A i \in DOMAIN sockets :
                (sockets[i].readyState # "CLOSED"
                   /\ (i \notin DOMAIN sockets'
                         \/ sockets'[i].readyState = "CLOSED"))
                    => i \notin pingIntervals'
          /\ last'.op \in {"disconnect", "unmount"} => pingIntervals' = {}
          /\ sent'.type = "ping" =>
                /\ sent'.sock \in pingIntervals
                /\ sockets[sent'.sock].readyState = "OPEN"]_vars

\* A close signal of the open transport cleared the armed ping interval.
C23_Witness ==
    /\ last.op = "close"
    /\ last.ping
    /\ last.live
    /\ isMountedRef
    /\ pingIntervals = {}
    /\ pingIntervalRef # 0

\* C24: a reconnect timer that fires while the manager is mounted (and the
\* constructor does not throw) constructs a new transport.
C24_TimerConnects ==
    [][(last'.op = "timer" /\ isMountedRef /\ ~ctorThrows)
          => created' = created + 1]_vars

\* What the code keeps of it: the timer constructs a transport whenever the
\* attempts counted are fewer than maxReconnectAttempts.
TimerConnectsBelowMax ==
    [][(/\ last'.op = "timer"
        /\ isMountedRef
        /\ ~ctorThrows
        /\ reconnectAttemptsRef < maxReconnectAttempts)
          => created' = created + 1]_vars

\* The manager is mounted and idle: no transport held, no handler attached
\* to any transport, no reconnect timer armed.
Quiescent ==
    /\ isMountedRef
    /\ wsRef = 0
    /\ AttachedSockets = {}
    /\ reconnectTimers = {}

\* C25: the owner's disconnect() leaves the mounted manager idle, and from
\* then on every step that is not a connect() of the owner (the close signal
\* of the transport it closed among them) leaves it idle, arms no reconnect
\* timer, does not change the attempt counter and constructs no transport.
C25_DisconnectCloseIsSilent ==
    /\ [][(last'.op = "disconnect" /\ isMountedRef) => Quiescent']_vars
    /\ [][(Quiescent /\ phase = "mounted" /\ last'.op # "connect") =>
             \/ last'.op = "unmount"
             \/ /\ Quiescent'
                /\ reconnectAttemptsRef' = reconnectAttemptsRef
                /\ created' = created]_vars

\* The transport that disconnect() closed signalled closed.
C25_Witness ==
    /\ last.op = "close"
    /\ phase = "mounted"
    /\ ~ctorThrows
    /\ Quiescent
    /\ created >= 1
    /\ reconnectAttemptsRef = 0
    /\ sockets = <<>>


\* The message the effect merges replaces the store with a list: a snapshot.
SnapshotMessage ==
    \/ lastMessage.type \in {"initial_data", "questions_list", "questions",
                             "refresh_data"}
    \/ /\ lastMessage.type \notin CaseTags
       /\ lastMessage.kind = "array"

\* C26: when the store has pairwise distinct ids and the message merged is
\* not a list with a repeated id, the store has pairwise distinct ids after
\* the merge, and its length changes only if the message is a snapshot or a
\* new_question whose id the store did not hold (which adds one).
C26_IdsStayUnique ==
    [][(dirty /\ ~dirty' /\ lastMessage # NoMessage
          /\ DistinctIds(questions)
          /\ (lastMessage.kind = "array" => DistinctIds(lastMessage.data)))
        => /\ DistinctIds(questions')
           /\ Len(questions') # Len(questions) =>
                 \/ SnapshotMessage
                 \/ /\ lastMessage.type = "new_question"
                    /\ ~HasId(questions, Carried.question_id)
                    /\ Len(questions') = Len(questions) + 1]_vars

\* A snapshot of two distinct ids replaced a store of two distinct ids that
\* shared one of them.
C26_Witness ==
    /\ last.op = "effect"
    /\ ~dirty
    /\ lastMessage.type = "questions_list"
    /\ lastMessage.kind = "array"
    /\ Len(last.store) = 2
    /\ DistinctIds(last.store)
    /\ Len(lastMessage.data) = 2
    /\ DistinctIds(lastMessage.data)
    /\ \E j, k \in 1..2 : last.store[j].question_id = lastMessage.data[k].question_id
    /\ last.store # lastMessage.data
    /\ questions = lastMessage.data


\* C27: at most one reconnect timer is armed, and none is armed while a
\* transport is connecting or open; a step arms a timer only by handling the
\* close signal of the transport the manager holds, and a step that
\* constructs a transport leaves no timer armed.
C27_OneReconnectTimer ==
    /\ [](/\ Cardinality(reconnectTimers) <= 1
          /\ reconnectTimers # {} => LiveSockets = {})
    /\ [][/\ reconnectTimers' \ reconnectTimers # {} =>
                /\ last'.op = "close"
                /\ wsRef # 0
                /\ wsRef' = wsRef
                /\ sockets[wsRef].readyState # "CLOSED"
                /\ sockets'[wsRef].readyState = "CLOSED"
          /\ created' # created => reconnectTimers' = {}]_vars

\* The owner called connect() while a reconnect timer was armed: the timer is
\* gone and a transport is connecting.
C27_Witness ==
    /\ last.op = "connect"
    /\ last.timer
    /\ reconnectTimers = {}
    /\ reconnectTimeoutRef = 0
    /\ wsRef # 0
    /\ sockets[wsRef].readyState = "CONNECTING"


\* C28: while the manager is mounted and isConnected is true, wsRef holds an
\* open transport, and a sendMessage made then returns true.
C28_StatusAgreesWithSend ==
    /\ (isMountedRef /\ isConnected) => HeldOpen
    /\ (isMountedRef /\ isConnected /\ last.op = "send") => returned = "true"

\* What the code does keep: isConnected turns true only in the opened handler
\* of the transport wsRef holds, and turns false only in a close handler.
StatusSetOnOpen ==
    [][/\ (~isConnected /\ isConnected') =>
              /\ last'.op = "open"
              /\ sockets'[wsRef].readyState = "OPEN"
       /\ (isConnected /\ ~isConnected') => last'.op = "close"]_vars


\* This step starts the request for question q or settles it.
StartsOrSettles(q) ==
    \/ /\ Len(aiRequests') = Len(aiRequests) + 1
       /\ aiRequests'[Len(aiRequests')].id = q
    \/ aiSettled'.id = q

\* C29: a step that starts or settles the request for a question leaves the
\* stored suggestion and the loading flag of every other question as they
\* were; so when two overlapping requests have both resolved, each result is
\* stored under its own id and both flags are false.
C29_RequestsDoNotInterfere ==
    [][\A q1, q2 \in QuestionIds :
          (q1 # q2 /\ StartsOrSettles(q2)) =>
              /\ aiSuggestions'[q1] = aiSuggestions[q1]
              /\ loadingAI'[q1] = loadingAI[q1]]_vars

\* What the code does keep: the step that resolves the request for a question
\* stores the result under its id and leaves its loading flag false.
ResolveStoresOwnResult ==
    [][(aiSettled'.id # 0 /\ aiSettled'.ok) =>
          /\ aiSuggestions'[aiSettled'.id] \in Suggestions
          /\ ~loadingAI'[aiSettled'.id]]_vars


\* C30: once the initial-data effect has run for the status the manager
\* exposes, an open transport the manager holds has been sent a get_questions;
\* the send the effect makes when isConnected is true succeeds, on the
\* transport held; and a get_questions is handed only to the open transport
\* held, and only once to it.
C30_OpenIsFollowedByResync ==
    /\ []((phase = "mounted" /\ isConnected /\ connectedSeen /\ HeldOpen)
             => resynced = wsRef)
    /\ [][/\ (last'.op = "resync" /\ isConnected) =>
                /\ HeldOpen
                /\ returned' = "true"
                /\ sent' = [sock |-> wsRef, type |-> "get_questions"]
          /\ sent'.type = "get_questions" =>
                /\ HeldOpen
                /\ sent'.sock = wsRef
                /\ resynced # wsRef]_vars

\* What the code does keep: a get_questions is handed only to the open
\* transport held, at most once to each transport, and only by the effect
\* run with isConnected true.
ResyncOnlyWhenOpen ==
    [][sent'.type = "get_questions" =>
          /\ last'.op = "resync"
          /\ isConnected
          /\ HeldOpen
          /\ sent'.sock = wsRef
          /\ resynced # wsRef]_vars

=============================================================================
